---- MODULE Spec2Model ----
(***************************************************************************)
(* State-machine model of crash_dashboard.py, a Streamlit script.  The     *)
(* whole script is executed from top to bottom when a viewer opens a       *)
(* session and again after every widget interaction; one action of the     *)
(* model is one such execution.                                            *)
(*                                                                         *)
(* Text is a sequence of one-character strings, so that upper-casing and   *)
(* the substring test are computed character by character.  Floating-point *)
(* quotients are kept exact as pairs <<numerator, denominator>>.           *)
(***************************************************************************)
EXTENDS Integers, Sequences, FiniteSets, TLC

(* ----------------------------- bounds ---------------------------------- *)

\* longest data file built from RecordPool
MaxRows == 2
\* script executions per session (first run + interactions)
MaxRuns == 4

(* --------------------------- text helpers ------------------------------ *)

LowerLetters ==
  <<"a","b","c","d","e","f","g","h","i","j","k","l","m",
    "n","o","p","q","r","s","t","u","v","w","x","y","z">>

UpperLetters ==
  <<"A","B","C","D","E","F","G","H","I","J","K","L","M",
    "N","O","P","Q","R","S","T","U","V","W","X","Y","Z">>

\* str.upper() on one character: a-z map to A-Z, anything else is unchanged
upper_char(c) ==
  IF \E i \in 1..26 : LowerLetters[i] = c
    THEN UpperLetters[CHOOSE i \in 1..26 : LowerLetters[i] = c]
    ELSE c

\* str.upper()
upper(s) == [i \in 1..Len(s) |-> upper_char(s[i])]

\* Python's `pattern in street_str` on strings: substring containment
str_in(pattern, s) ==
  \E i \in 0..(Len(s) - Len(pattern)) :
     \A j \in 1..Len(pattern) : s[i + j] = pattern[j]

\* a missing Street cell, as read_csv delivers it (float NaN); it is not text
NaN == <<"nan">>

\* pd.isna(street)
isna(street) == street = NaN

(* -------------------------- Road classifier ---------------------------- *)

highway_patterns ==
  << <<"I","-","4","0">>,
     <<"I","-","7","4">>,
     <<"J","O","H","N"," ","G","O","L","D">>,
     <<"J","O","H","N"," ","M"," ","G","O","L","D">>,
     <<"E","X","P","Y">>,
     <<"F","W","Y">>,
     <<"U","S","-","4","2","1">>,
     <<"U","S","-","5","2">>,
     <<"U","S","-","1","5","8">>,
     <<"U","S","-","3","1","1">>,
     <<"S","A","L","E","M"," ","P","K","W","Y">>,
     <<"P","E","T","E","R","S"," ","C","R","E","E","K"," ","P","K","W","Y">>,
     <<"S","I","L","A","S"," ","C","R","E","E","K"," ","P","K","W","Y">>,
     <<"U","N","I","V","E","R","S","I","T","Y"," ","P","K","W","Y">> >>

\* mutant: the street is matched as written, without upper-casing
is_highway_NoUpper(street) ==
  IF isna(street)
    THEN FALSE
    ELSE \E k \in 1..Len(highway_patterns) : str_in(highway_patterns[k], street)

is_highway(street) ==
  IF isna(street)
    THEN FALSE
    ELSE LET street_str == upper(street)
         IN  \E k \in 1..Len(highway_patterns) :
                str_in(highway_patterns[k], street_str)

(* ------------------------------ data file ------------------------------ *)

MAIN_ST   == <<"M","A","I","N"," ","S","T">>
I_40_EAST == <<"I","-","4","0"," ","E","A","S","T">>
ELM_ST    == <<"E","L","M"," ","S","T">>
us_52_n   == <<"u","s","-","5","2"," ","n">>
US_5211TH == <<"U","S","-","5","2","1","1","T","H">>
US_52_LANE == <<"5"," ","U","S","-","5","2"," ","L","A","N","E">>
Fwy_Rd    == <<"O","l","d"," ","F","w","y">>
I_4       == <<"I","-","4">>

Row(y, sev, h, d, m, st) ==
  [Year |-> y, Severity |-> sev, Hour |-> h, DayOfWeek |-> d, Month |-> m, Street |-> st]

\* the four records of the documented scenario
ScenarioFile ==
  << Row(2020, 1, 8, 0, 1, MAIN_ST),
     Row(2020, 4, 8, 1, 11, I_40_EAST),
     Row(2021, 3, 17, 1, 11, I_40_EAST),
     Row(2021, 2, 9, 6, 3, ELM_ST) >>

\* street names at the edges of the classifier
StreetsFile ==
  << Row(2019, 2, 23, 2, 12, US_5211TH),
     Row(2019, 2, 0, 3, 12, US_52_LANE),
     Row(2019, 3, 0, 3, 6, Fwy_Rd),
     Row(2019, 3, 23, 5, 6, I_4),
     Row(2019, 4, 12, 5, 6, NaN) >>

\* one hour more frequent than an earlier hour of the day
PeakFile ==
  << Row(2022, 2, 17, 0, 7, ELM_ST),
     Row(2022, 1, 17, 2, 7, MAIN_ST),
     Row(2022, 1, 8, 2, 5, MAIN_ST) >>

\* the k-th of a row of short street names: 'A ST', 'B ST', ...
StreetNo(k) == <<UpperLetters[k], " ", "S", "T">>

\* more streets than the top-streets tables hold: eleven streets once each,
\* then the seventh a second time
ManyStreetsFile ==
  [i \in 1..12 |->
     Row(2018, IF i % 2 = 0 THEN 4 ELSE 3, 6 + i, i % 7, i,
         IF i = 12 THEN StreetNo(7) ELSE StreetNo(i))]

\* rows from which the other data files are built
RecordPool ==
  { Row(2020, 1, 8, 0, 1, MAIN_ST),
    Row(2020, 4, 8, 1, 11, I_40_EAST),
    Row(2021, 3, 17, 1, 11, I_40_EAST),
    Row(2021, 2, 9, 6, 3, ELM_ST),
    Row(2021, 3, 17, 4, 1, NaN),
    Row(2020, 2, 9, 6, 3, us_52_n) }

\* the contents data/WS_Crashes_2017_2022.csv may have: a header and 0..n rows
Files ==
  UNION { [1..n -> RecordPool] : n \in 0..MaxRows } \cup {ScenarioFile, StreetsFile, PeakFile, ManyStreetsFile}

(* --------------------------- pandas helpers ---------------------------- *)

\* df[name] : one column of a frame, in row order
Column(df, name) == [i \in 1..Len(df) |-> df[i][name]]

\* sum of a sequence of integers
RECURSIVE SumSeq(_)
SumSeq(s) == IF s = <<>> THEN 0 ELSE Head(s) + SumSeq(Tail(s))

\* number of occurrences of v in s
Occurrences(s, v) == Cardinality({i \in 1..Len(s) : s[i] = v})

\* the non-missing cells of a Street column (value_counts has dropna=True;
\* the numeric columns hold no missing cells)
dropna(s) == SelectSeq(s, LAMBDA x : ~isna(x))

\* distinct values in order of first appearance
RECURSIVE unique(_)
unique(s) ==
  IF s = <<>> THEN <<>>
  ELSE LET init == unique(SubSeq(s, 1, Len(s) - 1))
           x    == s[Len(s)]
       IN  IF \E i \in 1..Len(init) : init[i] = x THEN init ELSE Append(init, x)

\* sorted(...) of a set of integers
RECURSIVE sorted(_)
sorted(S) ==
  IF S = {} THEN <<>>
  ELSE LET m == CHOOSE x \in S : \A y \in S : x <= y
       IN  <<m>> \o sorted(S \ {m})

\* stable insertion of pair p into pairs ordered by decreasing count
RECURSIVE InsertByCount(_, _)
InsertByCount(p, ps) ==
  IF ps = <<>> THEN <<p>>
  ELSE IF p[2] > Head(ps)[2] THEN <<p>> \o ps
  ELSE <<Head(ps)>> \o InsertByCount(p, Tail(ps))

RECURSIVE SortByCount(_)
SortByCount(ps) ==
  IF ps = <<>> THEN <<>>
  ELSE InsertByCount(ps[Len(ps)], SortByCount(SubSeq(ps, 1, Len(ps) - 1)))

Reverse(s) == [i \in 1..Len(s) |-> s[Len(s) + 1 - i]]

\* orders in which sort_values(ascending=False), whose default kind is the
\* non-stable quicksort, can leave rows of equal count: as first seen in the
\* column, or the other way round
TieOrders == {"first", "last"}

\* Series.value_counts(): <<value, count>> per distinct value, largest count
\* first, equal counts in the order `tie`
value_counts_in(s, tie) ==
  LET u  == unique(s)
      ps == [i \in 1..Len(u) |-> <<u[i], Occurrences(s, u[i])>>]
  IN  IF tie = "first" THEN SortByCount(ps) ELSE SortByCount(Reverse(ps))

\* value_counts() whose row order is then replaced by sort_index()
value_counts(s) == value_counts_in(s, "first")

\* mutant: the counts are left in value_counts order
sort_index_Unsorted(vc) == vc

\* .sort_index() of a value_counts() keyed by integers: ascending key
sort_index(vc) ==
  LET keys == sorted({vc[i][1] : i \in 1..Len(vc)})
  IN  [k \in 1..Len(keys) |->
         vc[CHOOSE i \in 1..Len(vc) : vc[i][1] = keys[k]]]

\* mutant: one row too many
head_OneMore(s, n) == SubSeq(s, 1, IF Len(s) < n + 1 THEN Len(s) ELSE n + 1)

\* .head(n)
head(s, n) == SubSeq(s, 1, IF Len(s) < n THEN Len(s) ELSE n)

\* mutant: the most frequent values in order of first appearance
mode_FirstSeen(s) ==
  SelectSeq(unique(s),
            LAMBDA v : \A i \in 1..Len(s) : Occurrences(s, s[i]) <= Occurrences(s, v))

\* Series.mode(): the most frequent values, ascending
mode(s) ==
  LET vals == {s[i] : i \in 1..Len(s)}
  IN  sorted({v \in vals : \A w \in vals : Occurrences(s, w) <= Occurrences(s, v)})

\* Series.mean() as the exact quotient sum / count
mean(s) == <<SumSeq(s), Len(s)>>

\* df.groupby([a, b]).size().reset_index(): <<a, b, count>>, keys ascending
groupby_size(df, a, b) ==
  LET codes == sorted({df[i][a] * 100 + df[i][b] : i \in 1..Len(df)})
  IN  [k \in 1..Len(codes) |->
         <<codes[k] \div 100, codes[k] % 100,
           Cardinality({i \in 1..Len(df) : df[i][a] * 100 + df[i][b] = codes[k]})>>]

\* Python's x / y on integers: the quotient <<x, y>>; y = 0 raises
\* ZeroDivisionError, written <<0, 0>>
truediv(x, y) == IF y = 0 THEN <<0, 0>> ELSE <<x, y>>

\* (q) * 100 for a quotient q
times100(q) == <<q[1] * 100, q[2]>>

\* the integer 0 that the guarded expressions fall back to
Zero == <<0, 1>>

raised(q) == q[2] = 0

\* str(n) for 0 <= n <= 99
Digits == <<"0","1","2","3","4","5","6","7","8","9">>
str_int(n) ==
  IF n < 10 THEN <<Digits[n + 1]>> ELSE <<Digits[(n \div 10) + 1], Digits[(n % 10) + 1]>>

(* ----------------------- the script's computations --------------------- *)

\* severity level from which a crash counts as severe
SevereLevel == 3
\* rows of the top-streets tables
TopN == 10
\* rows shown by ws_df.head()
HeadRows == 5

\* mutant: the memo ignores its argument and serves any stored result
cached_is_highway_Stale(memo, street) ==
  IF DOMAIN memo # {}
    THEN memo[CHOOSE s \in DOMAIN memo : TRUE]
    ELSE is_highway(street)

\* st.cache_data around is_highway: a memoised call
cached_is_highway(memo, street) ==
  IF street \in DOMAIN memo THEN memo[street] ELSE is_highway(street)

\* pd.read_csv plus the Is_Highway column
load(file, memo) ==
  [i \in 1..Len(file) |->
     [Year |-> file[i].Year, Severity |-> file[i].Severity, Hour |-> file[i].Hour,
      DayOfWeek |-> file[i].DayOfWeek, Month |-> file[i].Month,
      Street |-> file[i].Street,
      Is_Highway |-> cached_is_highway(memo, file[i].Street)]]

\* the memo after is_highway was applied to every Street of the file
memo_after(file, memo) ==
  [s \in DOMAIN memo \cup {file[i].Street : i \in 1..Len(file)} |->
     cached_is_highway(memo, s)]

years(df) == sorted({df[i].Year : i \in 1..Len(df)})

severity_options(df) == sorted({df[i].Severity : i \in 1..Len(df)})

Range(s) == {s[i] : i \in 1..Len(s)}

\* mutant: the two masks are joined with | instead of &
apply_filters_Or(df, sel_years, sel_severity) ==
  SelectSeq(df, LAMBDA r : r.Year \in sel_years \/ r.Severity \in sel_severity)

\* ws_df[Year.isin(selected_years) & Severity.isin(selected_severity)]
apply_filters(df, sel_years, sel_severity) ==
  SelectSeq(df, LAMBDA r : r.Year \in sel_years /\ r.Severity \in sel_severity)

\* mutant: > 3 instead of >= 3
severe_rows_Strict(f) == SelectSeq(f, LAMBDA r : r.Severity > SevereLevel)

\* f[f['Severity'] >= 3]
severe_rows(f) == SelectSeq(f, LAMBDA r : r.Severity >= SevereLevel)

severe_count(f) == Len(severe_rows(f))

severe_pct(f) ==
  IF Len(f) > 0 THEN times100(truediv(severe_count(f), Len(f))) ELSE Zero

\* the text of the "Peak Crash Hour" metric
peak_hour_metric(f) ==
  IF Len(f) > 0
    THEN str_int(mode(Column(f, "Hour"))[1]) \o <<":", "0", "0">>
    ELSE <<"N", "/", "A">>

\* mutant: the mean is taken without the emptiness guard (NaN on no rows)
avg_severity_Unguarded(f) == mean(Column(f, "Severity"))

avg_severity(f) == IF Len(f) > 0 THEN mean(Column(f, "Severity")) ELSE Zero

hourly(f) == sort_index(value_counts(Column(f, "Hour")))

daily(f) == sort_index(value_counts(Column(f, "DayOfWeek")))

yearly(f) == sort_index(value_counts(Column(f, "Year")))

monthly(f) == sort_index(value_counts(Column(f, "Month")))

monthly_year(f) == groupby_size(f, "Year", "Month")

severity_counts(f) == sort_index(value_counts(Column(f, "Severity")))

severity_year(f) == groupby_size(f, "Year", "Severity")

highway_crashes(f) == SelectSeq(f, LAMBDA r : r.Is_Highway = TRUE)

\* mutant: rows without a Street are left out of the surface streets
surface_crashes_DropMissing(f) ==
  SelectSeq(f, LAMBDA r : r.Is_Highway = FALSE /\ ~isna(r.Street))

surface_crashes(f) == SelectSeq(f, LAMBDA r : r.Is_Highway = FALSE)

road_type_counts(f) ==
  [Highways |-> Len(highway_crashes(f)), Surface |-> Len(surface_crashes(f))]

severity_comparison(f) ==
  [Highways |-> IF Len(highway_crashes(f)) > 0
                  THEN mean(Column(highway_crashes(f), "Severity")) ELSE Zero,
   Surface  |-> IF Len(surface_crashes(f)) > 0
                  THEN mean(Column(surface_crashes(f), "Severity")) ELSE Zero]

severe_road_type(f) ==
  [Highways |-> Len(highway_crashes(severe_rows(f))),
   Surface  |-> Len(surface_crashes(severe_rows(f)))]

highway_pct(f) == times100(truediv(Len(highway_crashes(f)), Len(f)))

severe_highway_pct(f) ==
  IF Len(severe_rows(f)) > 0
    THEN times100(truediv(Len(highway_crashes(severe_rows(f))), Len(severe_rows(f))))
    ELSE Zero

top_streets(f, tie) == head(value_counts_in(dropna(Column(f, "Street")), tie), TopN)

top_severe_streets(f, tie) ==
  head(value_counts_in(dropna(Column(severe_rows(f), "Street")), tie), TopN)

\* the figure of the map section
map_fig(f, mt) ==
  IF Len(f) > 0
    THEN (IF mt = "Scatter Plot" THEN "scatter_map" ELSE "density_map")
    ELSE "warning"

(* Key Findings: statistics of the full frame *)

total_crashes(df) == Len(df)

highway_pct_all(df) ==
  times100(truediv(Len(highway_crashes(df)), total_crashes(df)))

severe_pct_all(df) ==
  times100(truediv(Len(severe_rows(df)), total_crashes(df)))

severe_highway_pct_all(df) ==
  IF Len(severe_rows(df)) > 0
    THEN times100(truediv(Len(highway_crashes(severe_rows(df))), Len(severe_rows(df))))
    ELSE Zero

peak_hour(df) == mode(Column(df, "Hour"))[1]

peak_month_num(df) == mode(Column(df, "Month"))[1]

month_names_full ==
  <<"January", "February", "March", "April", "May", "June",
    "July", "August", "September", "October", "November", "December">>

peak_month(df) == month_names_full[peak_month_num(df)]

(* ------------------------------- state --------------------------------- *)

VARIABLES
  csv,                \* rows of data/WS_Crashes_2017_2022.csv
  loads,              \* executions of pd.read_csv in this session
  cache,              \* st.cache_data memo of is_highway: Street -> result
  ws_df,              \* the frame of the last run, with Is_Highway
  selected_years,     \* value of the "Select Years" multiselect
  selected_severity,  \* value of the "Select Severity Levels" multiselect
  map_type,           \* value of the map radio
  show_raw,           \* value of the "Show raw data" checkbox
  filtered_df,        \* the filtered frame of the last run
  metrics,            \* the four st.metric values of the last run
  ns,                 \* names bound by the last run: <<>> unbound, <<v>> bound to v
  err                 \* exception that ended the last run, or "none"

vars ==
  <<csv, loads, cache, ws_df, selected_years, selected_severity, map_type,
    show_raw, filtered_df, metrics, ns, err>>

\* a name the run did not bind / a name bound to v
Unbound == <<>>
Bound(v) == <<v>>
IsBound(x) == Len(x) = 1
Val(x) == x[1]

\* Key Metrics row
key_metrics(f) ==
  [total        |-> Len(f),
   severe_count |-> severe_count(f),
   severe_pct   |-> severe_pct(f),
   peak_hour    |-> peak_hour_metric(f),
   avg_severity |-> avg_severity(f)]

\* the names the script binds below the Key Metrics row, the two top-streets
\* tables apart; the charts are
\* computed under `if len(filtered_df) > 0`, and a division by zero in
\* Key Findings ends the run before the later names are bound
charts(df, f, mt, raw) ==
  LET ne  == Len(f) > 0
      exc == raised(highway_pct_all(df))
  IN
  [map_fig             |-> Bound(map_fig(f, mt)),
   hourly              |-> IF ne THEN Bound(hourly(f)) ELSE Unbound,
   daily               |-> IF ne THEN Bound(daily(f)) ELSE Unbound,
   yearly              |-> IF ne THEN Bound(yearly(f)) ELSE Unbound,
   monthly             |-> IF ne THEN Bound(monthly(f)) ELSE Unbound,
   monthly_year        |-> IF ne THEN Bound(monthly_year(f)) ELSE Unbound,
   severity_counts     |-> IF ne THEN Bound(severity_counts(f)) ELSE Unbound,
   severity_year       |-> IF ne THEN Bound(severity_year(f)) ELSE Unbound,
   highway_crashes     |-> Bound(highway_crashes(f)),
   surface_crashes     |-> Bound(surface_crashes(f)),
   road_type_counts    |-> IF ne THEN Bound(road_type_counts(f)) ELSE Unbound,
   severity_comparison |-> IF ne THEN Bound(severity_comparison(f)) ELSE Unbound,
   severe_road_type    |-> IF ne THEN Bound(severe_road_type(f)) ELSE Unbound,
   highway_pct         |-> IF ne THEN Bound(highway_pct(f)) ELSE Unbound,
   severe_highway_pct  |-> IF ne THEN Bound(severe_highway_pct(f)) ELSE Unbound,
   total_crashes       |-> Bound(total_crashes(df)),
   severe_crashes_all  |-> Bound(Len(severe_rows(df))),
   highway_pct_all     |-> IF exc THEN Unbound ELSE Bound(highway_pct_all(df)),
   severe_pct_all      |-> IF exc THEN Unbound ELSE Bound(severe_pct_all(df)),
   severe_highway_pct_all |-> IF exc THEN Unbound ELSE Bound(severe_highway_pct_all(df)),
   peak_hour           |-> IF exc THEN Unbound ELSE Bound(peak_hour(df)),
   peak_month_num      |-> IF exc THEN Unbound ELSE Bound(peak_month_num(df)),
   peak_month          |-> IF exc THEN Unbound ELSE Bound(peak_month(df)),
   raw_head            |-> IF ~exc /\ raw THEN Bound(head(df, HeadRows)) ELSE Unbound]

\* the two tables of the Most Dangerous Locations section, each sorted by
\* its own value_counts() call
tables(f, tie, tie_severe) ==
  [top_streets        |-> IF Len(f) > 0 THEN Bound(top_streets(f, tie)) ELSE Unbound,
   top_severe_streets |-> IF Len(f) > 0 /\ Len(severe_rows(f)) > 0
                            THEN Bound(top_severe_streets(f, tie_severe)) ELSE Unbound]

\* every name of a run
namespace(c, tbls) == c @@ tbls

\* before the first run nothing is bound
NoNames == [n \in DOMAIN namespace(charts(<<>>, <<>>, "Scatter Plot", FALSE), tables(<<>>, "first", "first")) |-> Unbound]

Init ==
  /\ csv \in Files
  /\ loads = 0
  /\ cache = <<>>
  /\ ws_df = <<>>
  /\ selected_years = {}
  /\ selected_severity = {}
  /\ map_type = "Scatter Plot"
  /\ show_raw = FALSE
  /\ filtered_df = <<>>
  /\ metrics = key_metrics(<<>>)
  /\ ns = NoNames
  /\ err = "none"

\* the end of a run: the state the script leaves behind.  c holds the names
\* bound apart from the two top-streets tables, whose value_counts() calls
\* each leave equal counts in an order of their own.
Finish(df, sy, ss, f, c, mt, raw) ==
  /\ loads' = loads + 1
  /\ cache' = memo_after(csv, cache)
  /\ ws_df' = df
  /\ selected_years' = sy
  /\ selected_severity' = ss
  /\ map_type' = mt
  /\ show_raw' = raw
  /\ filtered_df' = f
  /\ metrics' = key_metrics(f)
  /\ \E tie \in TieOrders : \E tie_severe \in TieOrders :
        ns' = namespace(c, tables(f, tie, tie_severe))
  /\ err' = IF IsBound(c.highway_pct_all) THEN "none" ELSE "ZeroDivisionError"
  /\ UNCHANGED csv

\* mutant: Key Findings reads the filtered frame instead of ws_df
Body_FindingsOfView(df, sy, ss, f, mt, raw) ==
  Finish(df, sy, ss, f, charts(f, f, mt, raw), mt, raw)

\* the script below the filters, over the full frame df and the filtered
\* frame f
Body(df, sy, ss, f, mt, raw) ==
  Finish(df, sy, ss, f, charts(df, f, mt, raw), mt, raw)

\* the sidebar filters over the loaded frame df.  On the first run the
\* multiselects take their defaults (every option); afterwards they return
\* the viewer's selection.
Sidebar(df, first, sel_years, sel_severity, mt, raw) ==
  Body(df,
       IF first THEN Range(years(df)) ELSE sel_years,
       IF first THEN Range(severity_options(df)) ELSE sel_severity,
       apply_filters(df,
                     IF first THEN Range(years(df)) ELSE sel_years,
                     IF first THEN Range(severity_options(df)) ELSE sel_severity),
       mt, raw)

\* one execution of the script from top to bottom
Script(first, sel_years, sel_severity, mt, raw) ==
  Sidebar(load(csv, cache), first, sel_years, sel_severity, mt, raw)

\* a viewer opens the page
OpenSession ==
  /\ loads = 0
  /\ Script(TRUE, {}, {}, "Scatter Plot", FALSE)

Interactive == loads > 0 /\ loads < MaxRuns

\* a year is added to or removed from the multiselect
ToggleYear ==
  /\ Interactive
  /\ \E y \in Range(years(ws_df)) :
       Script(FALSE,
              IF y \in selected_years THEN selected_years \ {y}
                                      ELSE selected_years \cup {y},
              selected_severity, map_type, show_raw)

\* a severity level is added to or removed from the multiselect
ToggleSeverity ==
  /\ Interactive
  /\ \E s \in Range(severity_options(ws_df)) :
       Script(FALSE, selected_years,
              IF s \in selected_severity THEN selected_severity \ {s}
                                         ELSE selected_severity \cup {s},
              map_type, show_raw)

\* the clear-all control of a multiselect
ClearYears ==
  /\ Interactive
  /\ selected_years # {}
  /\ Script(FALSE, {}, selected_severity, map_type, show_raw)

ClearSeverity ==
  /\ Interactive
  /\ selected_severity # {}
  /\ Script(FALSE, selected_years, {}, map_type, show_raw)

\* the other map view is chosen
SelectMapType ==
  /\ Interactive
  /\ Script(FALSE, selected_years, selected_severity,
            IF map_type = "Scatter Plot" THEN "Density Heatmap" ELSE "Scatter Plot",
            show_raw)

\* the raw-data checkbox is flipped; it is rendered only by a run that
\* reached the end of the script
ToggleRawData ==
  /\ Interactive
  /\ err = "none"
  /\ Script(FALSE, selected_years, selected_severity, map_type, ~show_raw)

Next ==
  \/ OpenSession
  \/ ToggleYear
  \/ ToggleSeverity
  \/ ClearYears
  \/ ClearSeverity
  \/ SelectMapType
  \/ ToggleRawData

Spec == Init /\ [][Next]_vars

(* ------------------------------ properties ----------------------------- *)

\* the script has run at least once in this session
Running == loads > 0

\* number of rows of frame df that satisfy the same test as row r of it
Copies(df, r) == Cardinality({i \in 1..Len(df) : df[i] = r})

AllYears == {ws_df[i].Year : i \in 1..Len(ws_df)}
AllSeverities == {ws_df[i].Severity : i \in 1..Len(ws_df)}

\* C1: the filtered view holds exactly the records of the full record set
\* whose Year is selected and whose Severity is selected (each as often as
\* the record set holds it) and no others; with every year and severity
\* selected it is the record set itself, and with an empty selection it is
\* empty.
C1_FilterExact ==
  Running =>
    /\ \A j \in 1..Len(filtered_df) :
         /\ filtered_df[j].Year \in selected_years
         /\ filtered_df[j].Severity \in selected_severity
         /\ \E i \in 1..Len(ws_df) : ws_df[i] = filtered_df[j]
    /\ \A i \in 1..Len(ws_df) :
         (ws_df[i].Year \in selected_years /\ ws_df[i].Severity \in selected_severity)
           => Copies(filtered_df, ws_df[i]) = Copies(ws_df, ws_df[i])
    /\ (selected_years = AllYears /\ selected_severity = AllSeverities)
         => filtered_df = ws_df
    /\ (selected_years = {} \/ selected_severity = {}) => filtered_df = <<>>

\* C1 witness: a selection that keeps some records and drops others, by year
\* for one record and by severity for another
C1_Witness ==
  /\ Running
  /\ filtered_df # <<>>
  /\ \E i \in 1..Len(ws_df) : ws_df[i].Year \notin selected_years
  /\ \E i \in 1..Len(ws_df) :
       ws_df[i].Year \in selected_years /\ ws_df[i].Severity \notin selected_severity

\* some pattern occurs in text s at some position
HasPattern(s) ==
  \E k \in 1..Len(highway_patterns) :
    \E i \in 1..Len(s) :
       /\ i + Len(highway_patterns[k]) - 1 <= Len(s)
       /\ SubSeq(s, i, i + Len(highway_patterns[k]) - 1) = highway_patterns[k]

\* C2: every call of is_highway returned false for a missing street, and for
\* a present street returned true exactly when the upper-cased street holds
\* one of the 14 patterns as a substring; 'US-5211TH' and '5 US-52 LANE' are
\* both classified true.
C2_Classifier ==
  /\ Len(highway_patterns) = 14
  /\ \A s \in DOMAIN cache :
       IF s = NaN THEN cache[s] = FALSE
                  ELSE cache[s] = HasPattern(upper(s))
  /\ US_5211TH \in DOMAIN cache => cache[US_5211TH] = TRUE
  /\ US_52_LANE \in DOMAIN cache => cache[US_52_LANE] = TRUE

\* C2 witness: the classifier was called on a missing street, on both named
\* streets, on a lower-case highway name and on a non-highway name
C2_Witness ==
  /\ {NaN, US_5211TH, US_52_LANE, Fwy_Rd, I_4} \subseteq DOMAIN cache
  /\ cache[Fwy_Rd] = TRUE
  /\ cache[I_4] = FALSE

\* a quotient that is the number n
IsNumber(q, n) == q[2] # 0 /\ q[1] = n * q[2]

\* C3: when the selection leaves no record of a non-empty record set, the
\* run ends without an exception and reports total 0, severe count 0 with
\* percentage 0, peak hour "N/A", average severity 0 and highway and
\* surface-street counts 0.
C3_EmptySubset ==
  (Running /\ ws_df # <<>> /\ filtered_df = <<>>) =>
    /\ err = "none"
    /\ metrics.total = 0
    /\ metrics.severe_count = 0
    /\ IsNumber(metrics.severe_pct, 0)
    /\ metrics.peak_hour = <<"N", "/", "A">>
    /\ IsNumber(metrics.avg_severity, 0)
    /\ IsBound(ns.highway_crashes) /\ Len(Val(ns.highway_crashes)) = 0
    /\ IsBound(ns.surface_crashes) /\ Len(Val(ns.surface_crashes)) = 0

\* C3 witness: a run over a non-empty record set with an empty filtered view
C3_Witness ==
  /\ Running
  /\ Len(ws_df) >= 2
  /\ filtered_df = <<>>
  /\ selected_years # {}

\* C4: within one session the data file is read exactly once, whatever the
\* viewer does afterwards.
C4_LoadOnce == Running => loads = 1

\* C5: every record of the full frame and of the filtered view carries the
\* Is_Highway that is_highway gives for its Street (false for a missing
\* Street).
C5_IsHighwayConsistent ==
  Running =>
    /\ \A i \in 1..Len(ws_df) :
         ws_df[i].Is_Highway = is_highway(ws_df[i].Street)
    /\ \A j \in 1..Len(filtered_df) :
         filtered_df[j].Is_Highway = is_highway(filtered_df[j].Street)

\* C5 witness: after a filter change, a view with a highway record and a
\* record without Street, served from the memo
C5_Witness ==
  /\ loads >= 2
  /\ Len(filtered_df) < Len(ws_df)
  /\ \E j \in 1..Len(filtered_df) : filtered_df[j].Is_Highway
  /\ \E j \in 1..Len(filtered_df) :
       filtered_df[j].Street = NaN /\ ~filtered_df[j].Is_Highway

\* sum of the counts of a table of <<key, count>> rows
RECURSIVE CountSum(_)
CountSum(tbl) == IF tbl = <<>> THEN 0 ELSE Head(tbl)[2] + CountSum(Tail(tbl))

\* a histogram of the filtered view: bound, summing to the row count, keys
\* strictly ascending
GoodHistogram(h) ==
  /\ IsBound(h)
  /\ CountSum(Val(h)) = Len(filtered_df)
  /\ \A k \in 1..Len(Val(h)) : \A l \in 1..Len(Val(h)) :
       k < l => Val(h)[k][1] < Val(h)[l][1]

\* C6: for a non-empty filtered view the counts of the hourly, day-of-week,
\* monthly, yearly and severity histograms each sum to the number of rows of
\* the view, and each histogram is keyed in ascending order.
C6_HistogramTotals ==
  (Running /\ filtered_df # <<>>) =>
    /\ GoodHistogram(ns.hourly)
    /\ GoodHistogram(ns.daily)
    /\ GoodHistogram(ns.monthly)
    /\ GoodHistogram(ns.yearly)
    /\ GoodHistogram(ns.severity_counts)

\* C6 witness: a view whose rows arrive with the later hour first and share
\* a month
C6_Witness ==
  /\ Running
  /\ Len(filtered_df) >= 3
  /\ filtered_df[1].Hour > filtered_df[3].Hour
  /\ IsBound(ns.monthly) /\ Len(Val(ns.monthly)) < Len(filtered_df)

SevereInView == Cardinality({j \in 1..Len(filtered_df) : filtered_df[j].Severity >= 3})

RoadSplitSums ==
  Len(Val(ns.highway_crashes)) + Len(Val(ns.surface_crashes)) = Len(filtered_df)

SevereSplitSums ==
  /\ IsBound(ns.severe_road_type)
  /\ Val(ns.severe_road_type).Highways + Val(ns.severe_road_type).Surface = SevereInView

ZeroWhenNoRows(den, x) == den = 0 => (IsBound(x) /\ IsNumber(Val(x), 0))

\* C8: no run ends in a division by zero, and every percentage and mean
\* whose denominator is 0 is 0: over the filtered view the severe
\* percentage, the average severity, the per-road-type means and the
\* severe-highway percentage (the highway percentage is skipped with its
\* callout), over the full frame highway_pct_all, severe_pct_all and
\* severe_highway_pct_all.
C8_ZeroDenominator ==
  Running =>
    /\ err = "none"
    /\ Len(filtered_df) = 0 => IsNumber(metrics.severe_pct, 0)
    /\ Len(filtered_df) = 0 => IsNumber(metrics.avg_severity, 0)
    /\ (Len(filtered_df) = 0 /\ IsBound(ns.highway_pct)) => IsNumber(Val(ns.highway_pct), 0)
    /\ (IsBound(ns.severity_comparison) /\ Len(Val(ns.highway_crashes)) = 0)
         => IsNumber(Val(ns.severity_comparison).Highways, 0)
    /\ (IsBound(ns.severity_comparison) /\ Len(Val(ns.surface_crashes)) = 0)
         => IsNumber(Val(ns.severity_comparison).Surface, 0)
    /\ (IsBound(ns.severe_highway_pct) /\ SevereInView = 0)
         => IsNumber(Val(ns.severe_highway_pct), 0)
    /\ ZeroWhenNoRows(Len(ws_df), ns.highway_pct_all)
    /\ ZeroWhenNoRows(Len(ws_df), ns.severe_pct_all)
    /\ ZeroWhenNoRows(Cardinality({i \in 1..Len(ws_df) : ws_df[i].Severity >= 3}),
                      ns.severe_highway_pct_all)

\* C9: on the four-record scenario with every year and severity selected the
\* run reports total 4, severe count 2 (50%), peak hour 8, highway count 2,
\* severe-highway count 2 (100% of the severe crashes) and 'I-40 EAST' with
\* count 2 at the head of the top-streets table.
C9_Scenario ==
  (/\ Running
   /\ csv = ScenarioFile
   /\ selected_years = {2020, 2021}
   /\ selected_severity = {1, 2, 3, 4}) =>
    /\ metrics.total = 4
    /\ metrics.severe_count = 2
    /\ IsNumber(metrics.severe_pct, 50)
    /\ metrics.peak_hour = <<"8", ":", "0", "0">>
    /\ Len(Val(ns.highway_crashes)) = 2
    /\ IsBound(ns.severe_road_type) /\ Val(ns.severe_road_type).Highways = 2
    /\ IsBound(ns.severe_highway_pct) /\ IsNumber(Val(ns.severe_highway_pct), 100)
    /\ IsBound(ns.top_streets) /\ Val(ns.top_streets)[1] = <<I_40_EAST, 2>>

\* C9 witness: the scenario has been run with everything selected, after a
\* selection was changed and restored
C9_Witness ==
  /\ loads >= 3
  /\ csv = ScenarioFile
  /\ selected_years = {2020, 2021}
  /\ selected_severity = {1, 2, 3, 4}
  /\ metrics.total = 4

\* number of rows of df with hour h
HourCount(df, h) == Cardinality({i \in 1..Len(df) : df[i].Hour = h})

\* h is an hour of df of maximal frequency, the smallest such hour
SmallestPeak(df, h) ==
  /\ HourCount(df, h) > 0
  /\ \A g \in 0..23 : HourCount(df, g) <= HourCount(df, h)
  /\ \A g \in 0..23 : HourCount(df, g) = HourCount(df, h) => h <= g

\* C10: the peak hour reported for a non-empty filtered view, and the peak
\* hour of a non-empty full frame, is an hour of maximal frequency there, the
\* smallest one when several hours share that frequency.
C10_PeakHour ==
  Running =>
    /\ filtered_df # <<>> =>
         \E h \in 0..23 :
            /\ metrics.peak_hour = str_int(h) \o <<":", "0", "0">>
            /\ SmallestPeak(filtered_df, h)
    /\ ws_df # <<>> =>
         (IsBound(ns.peak_hour) /\ SmallestPeak(ws_df, Val(ns.peak_hour)))

\* C10 witness: a view whose first row has hour 17, tied with hour 8, under
\* a full frame whose most frequent hour is 17
C10_Witness ==
  /\ Running
  /\ Len(filtered_df) = 2
  /\ filtered_df[1].Hour = 17
  /\ filtered_df[2].Hour = 8
  /\ metrics.peak_hour = <<"8", ":", "0", "0">>
  /\ IsBound(ns.peak_hour) /\ Val(ns.peak_hour) = 17

\* the streets named in frame df
StreetsOf(df) == {df[j].Street : j \in 1..Len(df)} \ {NaN}

\* rows of df on street s
StreetCount(df, s) == Cardinality({j \in 1..Len(df) : df[j].Street = s})

\* the first row of df on street s
FirstRow(df, s) ==
  CHOOSE j \in 1..Len(df) :
     df[j].Street = s /\ \A k \in 1..(j - 1) : df[k].Street # s

\* tbl lists streets of df with their counts, at most 10 and as many as df
\* has up to 10, no street twice, counts non-increasing, and no street left
\* out has a larger count than a listed one
TopTable(tbl, df) ==
  /\ Len(tbl) <= 10
  /\ Len(tbl) = (IF Cardinality(StreetsOf(df)) < 10
                   THEN Cardinality(StreetsOf(df)) ELSE 10)
  /\ \A k \in 1..Len(tbl) :
       /\ tbl[k][1] \in StreetsOf(df)
       /\ tbl[k][2] = StreetCount(df, tbl[k][1])
  /\ \A k \in 1..Len(tbl) : \A l \in 1..Len(tbl) :
       k < l => (tbl[k][1] # tbl[l][1] /\ tbl[k][2] >= tbl[l][2])
  /\ \A s \in StreetsOf(df) :
       (\A k \in 1..Len(tbl) : tbl[k][1] # s)
         => \A k \in 1..Len(tbl) : StreetCount(df, s) <= tbl[k][2]

\* streets of equal count stand in the order of their first rows in df, and
\* a street left out was first seen after every listed street of its count
TiesFirstSeen(tbl, df) ==
  /\ \A k \in 1..Len(tbl) : \A l \in 1..Len(tbl) :
       (k < l /\ tbl[k][2] = tbl[l][2])
         => FirstRow(df, tbl[k][1]) < FirstRow(df, tbl[l][1])
  /\ \A s \in StreetsOf(df) :
       (\A k \in 1..Len(tbl) : tbl[k][1] # s)
         => \A k \in 1..Len(tbl) :
              StreetCount(df, s) = tbl[k][2]
                => FirstRow(df, tbl[k][1]) < FirstRow(df, s)

\* the rows of the filtered view with Severity >= 3
SevereView == SelectSeq(filtered_df, LAMBDA r : r.Severity >= 3)

\* C11 as stated: the top-streets table lists at most 10 streets of the
\* filtered view in non-increasing order of count, no street left out has a
\* larger count than a listed one, and streets of equal count are ordered by
\* first occurrence; the severe table is the same over the rows with
\* Severity >= 3.
C11_TopStreetsFirstSeen ==
  Running =>
    /\ filtered_df # <<>> =>
         /\ IsBound(ns.top_streets)
         /\ TopTable(Val(ns.top_streets), filtered_df)
         /\ TiesFirstSeen(Val(ns.top_streets), filtered_df)
    /\ SevereView # <<>> =>
         /\ IsBound(ns.top_severe_streets)
         /\ TopTable(Val(ns.top_severe_streets), SevereView)
         /\ TiesFirstSeen(Val(ns.top_severe_streets), SevereView)

\* C11 amended: the top-streets table lists at most 10 streets of the
\* filtered view in non-increasing order of count and no street left out has
\* a larger count than a listed one; the order among streets of equal count
\* is not fixed.  The severe table is the same over the rows with
\* Severity >= 3.
C11_TopStreets ==
  Running =>
    /\ filtered_df # <<>> =>
         /\ IsBound(ns.top_streets)
         /\ TopTable(Val(ns.top_streets), filtered_df)
    /\ SevereView # <<>> =>
         /\ IsBound(ns.top_severe_streets)
         /\ TopTable(Val(ns.top_severe_streets), SevereView)

\* C11 witness: a view with more than 10 streets, cut to 10 rows with the
\* twice-seen street first and equal counts not in first-seen order, beside a
\* shorter severe table
C11_Witness ==
  /\ Running
  /\ Cardinality(StreetsOf(filtered_df)) > 10
  /\ IsBound(ns.top_streets)
  /\ Len(Val(ns.top_streets)) = 10
  /\ Val(ns.top_streets)[1] = <<StreetNo(7), 2>>
  /\ ~TiesFirstSeen(Val(ns.top_streets), filtered_df)
  /\ IsBound(ns.top_severe_streets)

\* the Key Findings statistics of the last run
Findings ==
  <<ns.total_crashes, ns.severe_crashes_all, ns.severe_pct_all,
    ns.highway_pct_all, ns.severe_highway_pct_all, ns.peak_hour,
    ns.peak_month_num, ns.peak_month>>

\* C12: once the page has run, no interaction changes the full record set
\* or any Key Findings statistic (total, severe count and percentage,
\* highway percentage, severe-highway percentage, peak hour, peak month),
\* whatever the selection becomes, an empty filtered view included.
C12_FullDataFrame ==
  [][Running => (ws_df' = ws_df /\ Findings' = Findings)]_vars

\* C12 witness: after a selection change the filtered view of a non-empty
\* record set is empty and the Key Findings statistics are bound
C12_Witness ==
  /\ loads >= 2
  /\ Len(ws_df) >= 2
  /\ filtered_df = <<>>
  /\ selected_years # AllYears
  /\ IsBound(ns.peak_month)
  /\ IsBound(ns.severe_pct_all)
  /\ Val(ns.total_crashes) = Len(ws_df)

====
